---- MODULE Spec2Model ----
(***************************************************************************)
(* Model of shield_wall_v0.py: a two-faction contest on a 16-cell line.    *)
(* The registry (Game.units) is a sequence of unit records; set_actions()  *)
(* and step() are the two operations.  Factors of ACTION_MODS are kept in  *)
(* quarters (0.25 = 1), which represents every factor of the table exactly.*)
(***************************************************************************)
EXTENDS Integers, Sequences, FiniteSets, TLC

VARIABLES units, turn_count, battle_log, fights, pre, call

vars == <<units, turn_count, battle_log, fights, pre, call>>

(* ------------------------- configuration ------------------------------ *)
BOARD_LEN == 16
LEFT_BASE_X == 1
RIGHT_BASE_X == 16
START_A_X == 2
START_B_X == 15
RIGHT == 1
LEFT == -1

CARICA == "carica"
ATTACCA == "attacca"
MOVIMENTO == "movimento"
DIFENDI == "difendi"
RITIRATA == "ritirata"
Action == {CARICA, ATTACCA, MOVIMENTO, DIFENDI, RITIRATA}
None == "None"

\* ACTION_MODS in quarters: vel 1.00 -> 4, atk 1.25 -> 5, ...
ACTION_MODS ==
  [a \in Action |->
     CASE a = CARICA    -> [vel |-> 4, atk |-> 5, def |-> 0]
       [] a = ATTACCA   -> [vel |-> 1, atk |-> 4, def |-> 1]
       [] a = MOVIMENTO -> [vel |-> 2, atk |-> 1, def |-> 1]
       [] a = DIFENDI   -> [vel |-> 0, atk |-> 1, def |-> 4]
       [] a = RITIRATA  -> [vel |-> 3, atk |-> 0, def |-> 0]]

Max2(a, b) == IF a >= b THEN a ELSE b
Min2(a, b) == IF a <= b THEN a ELSE b
Abs(x) == IF x < 0 THEN -x ELSE x

\* variant: the lower bound one cell off, the upper bound left out
clamp_board_loose(x) == Max2(0, x)

clamp_board(x) == Max2(1, Min2(BOARD_LEN, x))

(* ------------------------------ Unit ---------------------------------- *)
\* variant: the two bases exchanged
at_base_enemy_swapped(u) ==
  IF u.faction = "A" THEN u.pos = LEFT_BASE_X ELSE u.pos = RIGHT_BASE_X

at_base_enemy(u) ==
  IF u.faction = "A" THEN u.pos = RIGHT_BASE_X ELSE u.pos = LEFT_BASE_X

speed_value(u) == ACTION_MODS[u.next_action].vel

\* variant: Defend advances like every other action
step_size_always(u) == 1

step_size(u) == IF u.next_action = DIFENDI THEN 0 ELSE 1

intended_direction(u) ==
  IF u.next_action = RITIRATA THEN -u.direzione ELSE u.direzione

att_mod(u) == ACTION_MODS[u.next_action].atk

def_mod(u) == ACTION_MODS[u.next_action].def

(* --------------------------- sequences -------------------------------- *)
RECURSIVE Filter(_, _)
\* the list comprehension [x for x in s if x in keep-set of indices]
Filter(s, keep) ==
  IF s = <<>> THEN <<>>
  ELSE (IF keep[Head(s)] THEN <<Head(s)>> ELSE <<>>) \o Filter(Tail(s), keep)

Range(s) == {s[i] : i \in 1..Len(s)}

RECURSIVE FlatMap(_, _)
\* concatenation of f[x] for x in s, in order (a loop appending to a list)
FlatMap(s, f) ==
  IF s = <<>> THEN <<>> ELSE f[Head(s)] \o FlatMap(Tail(s), f)

RECURSIVE SeqMax(_)
SeqMax(s) ==
  IF Len(s) = 1 THEN s[1] ELSE Max2(Head(s), SeqMax(Tail(s)))

(* ------------------------------ Game ---------------------------------- *)
\* variant: every unit of the registry, whatever its health
get_units_alive_unfiltered(us) == [i \in 1..Len(us) |-> i]

\* get_units_alive: registry indices of the units with salute > 0, in order
get_units_alive(us) ==
  Filter([i \in 1..Len(us) |-> i], [i \in 1..Len(us) |-> us[i].salute > 0])

factions(us) ==
  [f \in {"A", "B"} |->
     Filter(get_units_alive(us), [i \in 1..Len(us) |-> us[i].faction = f])]

\* variant: only the orientation (retreat, attack) is recognised
_is_retreat_vs_attack_one_way(u, v) ==
  u.next_action = RITIRATA /\ v.next_action = ATTACCA

_is_retreat_vs_attack(u, v) ==
  \/ u.next_action = RITIRATA /\ v.next_action = ATTACCA
  \/ v.next_action = RITIRATA /\ u.next_action = ATTACCA

\* intents, keyed by registry index of the alive units
_compute_intents(us, alive) ==
  [i \in Range(alive) |->
     IF step_size(us[i]) = 0 THEN us[i].pos
     ELSE clamp_board(us[i].pos + intended_direction(us[i]) * step_size(us[i]))]

(* ----------------- blocking on occupied cells & contests -------------- *)
\* 1 / 1e-9, the tolerance of the speed comparison
SPEED_TOL_DEN == 1000000000

\* abs(a - b) < 1e-9 for speeds a, b given in quarters
speed_tied(a, b) == Abs(a - b) * (SPEED_TOL_DEN \div 4) < 1

\* initial_occ: dict pos -> unit; a later alive unit overwrites an earlier one
initial_occ(us, alive) ==
  [c \in {us[i].pos : i \in Range(alive)} |->
     CHOOSE i \in Range(alive) :
       us[i].pos = c /\ \A j \in Range(alive) : us[j].pos = c => j <= i]

RECURSIVE dest_cells(_, _, _)
\* keys of dest_groups in insertion order
dest_cells(alive, intents, done) ==
  IF alive = <<>> THEN <<>>
  ELSE LET c == intents[Head(alive)]
       IN  IF c \in done THEN dest_cells(Tail(alive), intents, done)
           ELSE <<c>> \o dest_cells(Tail(alive), intents, done \cup {c})

dest_group(alive, intents, cell) ==
  Filter(alive, [i \in Range(alive) |-> intents[i] = cell])

NoContest == [battles |-> <<>>, winners |-> {}, blocked |-> {}]

\* destination occupied at turn start: nobody may enter
occupied_cell(us, group, occupant) ==
  [battles |->
     FlatMap(group,
       [g \in Range(group) |->
          IF /\ us[g].id # us[occupant].id
             /\ us[g].faction # us[occupant].faction
             /\ ~_is_retreat_vs_attack(us[g], us[occupant])
          THEN << <<g, occupant>> >> ELSE <<>>]),
   winners |-> {},
   blocked |-> {g \in Range(group) : us[g].id # us[occupant].id}]

\* a single fastest contender takes the free cell
contest_won(us, group, cell, winner) ==
  [battles |->
     FlatMap(group,
       [g \in Range(group) |->
          IF /\ us[g].id # us[winner].id
             /\ us[g].faction # us[winner].faction
             /\ ~_is_retreat_vs_attack(us[winner], us[g])
          THEN << <<winner, g>> >> ELSE <<>>]),
   winners |-> {<<cell, winner>>},
   blocked |-> {g \in Range(group) : us[g].id # us[winner].id}]

\* speed tie: nobody moves, opposite factions among the tied fight
contest_tied(us, group, contenders) ==
  LET A_side == Filter(contenders, [g \in Range(contenders) |-> us[g].faction = "A"])
      B_side == Filter(contenders, [g \in Range(contenders) |-> us[g].faction = "B"])
  IN  [battles |->
         FlatMap(A_side,
           [a \in Range(A_side) |->
              FlatMap(B_side,
                [b \in Range(B_side) |->
                   IF ~_is_retreat_vs_attack(us[a], us[b])
                   THEN << <<a, b>> >> ELSE <<>>])]),
       winners |-> {},
       blocked |-> Range(group)]

\* variant: on a speed tie the first of the tied contenders takes the cell
free_cell_first_wins(us, group, cell) ==
  IF Len(group) >= 2
  THEN LET max_vel == SeqMax([k \in 1..Len(group) |-> speed_value(us[group[k]])])
           contenders ==
             Filter(group, [g \in Range(group) |-> speed_tied(speed_value(us[g]), max_vel)])
       IN  contest_won(us, group, cell, contenders[1])
  ELSE NoContest

free_cell(us, group, cell) ==
  IF Len(group) >= 2
  THEN LET max_vel == SeqMax([k \in 1..Len(group) |-> speed_value(us[group[k]])])
           contenders ==
             Filter(group, [g \in Range(group) |-> speed_tied(speed_value(us[g]), max_vel)])
       IN  IF Len(contenders) = 1
           THEN contest_won(us, group, cell, contenders[1])
           ELSE contest_tied(us, group, contenders)
  ELSE NoContest

RECURSIVE contests(_, _, _, _, _)
\* step 2: the loop over dest_groups
contests(us, alive, intents, occ, cells) ==
  IF cells = <<>> THEN NoContest
  ELSE LET cell  == Head(cells)
           group == dest_group(alive, intents, cell)
           here  == IF cell \in DOMAIN occ
                    THEN occupied_cell(us, group, occ[cell])
                    ELSE free_cell(us, group, cell)
           rest  == contests(us, alive, intents, occ, Tail(cells))
       IN  [battles |-> here.battles \o rest.battles,
            winners |-> here.winners \cup rest.winners,
            blocked |-> here.blocked \cup rest.blocked]

\* the winners dict: cell -> unit
winner_of(wins) ==
  [c \in {w[1] : w \in wins} |-> CHOOSE i \in {w[2] : w \in wins} : <<c, i>> \in wins]

\* step 3: single attempts not yet marked
single_attempts(us, alive, intents, occ, winners, blocked) ==
  LET on_occupied(u) ==
        intents[u] \in DOMAIN occ /\ us[occ[intents[u]]].id # us[u].id
      on_won(u) ==
        intents[u] \in DOMAIN winners /\ us[winners[intents[u]]].id # us[u].id
      other(u) == IF on_occupied(u) THEN occ[intents[u]] ELSE winners[intents[u]]
      todo == Filter(alive, [u \in Range(alive) |->
                u \notin blocked /\ (on_occupied(u) \/ on_won(u))])
  IN  [battles |->
         FlatMap(todo,
           [u \in Range(todo) |->
              IF /\ us[other(u)].faction # us[u].faction
                 /\ ~_is_retreat_vs_attack(us[u], us[other(u)])
              THEN << <<u, other(u)>> >> ELSE <<>>]),
       blocked |-> Range(todo)]

RECURSIVE chase(_, _, _, _)
\* step 4: same-direction pursuit between friends; returns the blocked set
chase(us, rest, occ, blocked) ==
  IF rest = <<>> THEN blocked
  ELSE LET u == Head(rest)
           d == intended_direction(us[u])
           front_cell == us[u].pos + d
           halts ==
             /\ u \notin blocked
             /\ front_cell \in DOMAIN occ
             /\ us[occ[front_cell]].faction = us[u].faction
             /\ intended_direction(us[occ[front_cell]]) = d
             /\ speed_value(us[u]) > speed_value(us[occ[front_cell]])
       IN  chase(us, Tail(rest), occ,
                 IF halts THEN blocked \cup {u, occ[front_cell]} ELSE blocked)

_resolve_blocking_and_contests(us, alive, intents) ==
  LET occ == initial_occ(us, alive)
      s2  == contests(us, alive, intents, occ, dest_cells(alive, intents, {}))
      winners == winner_of(s2.winners)
      s3  == single_attempts(us, alive, intents, occ, winners, s2.blocked)
  IN  [battles |-> s2.battles \o s3.battles,
       winners |-> winners,
       blocked |-> chase(us, alive, occ, s2.blocked \cup s3.blocked)]

(* ------------------------------ battles ------------------------------- *)
\* variant: int(q / 4), the fraction dropped
round_quarters_truncated(q) == q \div 4

\* int(round(q / 4)) for q >= 0: Python rounds halves to the even neighbour
round_quarters(q) ==
  LET fl == q \div 4
      r  == q % 4
  IN  IF r < 2 THEN fl
      ELSE IF r > 2 THEN fl + 1
      ELSE IF fl % 2 = 0 THEN fl ELSE fl + 1

\* max(0.0, u.attacco * u.att_mod() - v.difesa * v.def_mod()), in quarters
outgoing_attack(u, v) ==
  Max2(0, u.attacco * att_mod(u) - v.difesa * def_mod(v))

\* variant: the reductions are not floored at zero
exchange_unfloored(us, u, v) ==
  LET u_dmg == round_quarters(outgoing_attack(us[v], us[u]))
      v_dmg == round_quarters(outgoing_attack(us[u], us[v]))
  IN  [entry |-> [u |-> us[u].id, uf |-> us[u].faction,
                  v |-> us[v].id, vf |-> us[v].faction,
                  u_dmg |-> u_dmg, v_dmg |-> v_dmg],
       us |-> [us EXCEPT ![u].salute = us[u].salute - u_dmg,
                         ![v].salute = us[v].salute - v_dmg]]

\* one exchange of the pair (u, v): both damages come from the values before it
exchange(us, u, v) ==
  LET u_atk == outgoing_attack(us[u], us[v])
      v_atk == outgoing_attack(us[v], us[u])
      u_dmg == round_quarters(v_atk)
      v_dmg == round_quarters(u_atk)
  IN  [entry |-> [u |-> us[u].id, uf |-> us[u].faction,
                  v |-> us[v].id, vf |-> us[v].faction,
                  u_dmg |-> u_dmg, v_dmg |-> v_dmg],
       us |-> [us EXCEPT ![u].salute = Max2(0, us[u].salute - u_dmg),
                         ![v].salute = Max2(0, us[v].salute - v_dmg)]]

RECURSIVE battle_loop_no_seen(_, _, _, _, _)
\* variant: a pair scheduled twice fights twice
battle_loop_no_seen(us, battles, seen, log, fought) ==
  IF battles = <<>> THEN [us |-> us, log |-> log, fought |-> fought]
  ELSE LET u == Head(battles)[1]
           v == Head(battles)[2]
       IN  IF us[u].salute <= 0 \/ us[v].salute <= 0
           THEN battle_loop_no_seen(us, Tail(battles), seen, log, fought)
           ELSE LET x == exchange(us, u, v)
                IN  battle_loop_no_seen(x.us, Tail(battles), seen,
                      IF x.entry.u_dmg > 0 \/ x.entry.v_dmg > 0
                      THEN Append(log, x.entry) ELSE log,
                      Append(fought, x.entry))

RECURSIVE battle_loop(_, _, _, _, _)
\* the loop of _resolve_battles over the scheduled pairs
battle_loop(us, battles, seen, log, fought) ==
  IF battles = <<>> THEN [us |-> us, log |-> log, fought |-> fought]
  ELSE LET u == Head(battles)[1]
           v == Head(battles)[2]
           key == {us[u].id, us[v].id}
       IN  IF us[u].salute <= 0 \/ us[v].salute <= 0
           THEN battle_loop(us, Tail(battles), seen, log, fought)
           ELSE IF key \in seen
           THEN battle_loop(us, Tail(battles), seen, log, fought)
           ELSE LET x == exchange(us, u, v)
                IN  battle_loop(x.us, Tail(battles), seen \cup {key},
                      IF x.entry.u_dmg > 0 \/ x.entry.v_dmg > 0
                      THEN Append(log, x.entry) ELSE log,
                      Append(fought, x.entry))

_resolve_battles(us, battles) == battle_loop(us, battles, {}, <<>>, <<>>)

(* ----------------------------- movement ------------------------------- *)
\* variant: the blocked set is not consulted
_apply_movements_unblocked(us, alive, intents, winners, blocked) ==
  LET initial_free == (1..BOARD_LEN) \ {us[i].pos : i \in Range(alive)}
      winner_ids == {us[winners[c]].id : c \in DOMAIN winners}
      won(i) == CHOOSE c \in DOMAIN winners : winners[c] = i
      moves(i) ==
        /\ us[i].id \notin winner_ids
        /\ intents[i] \in initial_free \/ intents[i] = us[i].pos
        /\ intents[i] \notin DOMAIN winners
  IN  [i \in 1..Len(us) |->
         IF i \notin Range(alive) THEN us[i]
         ELSE IF \E c \in DOMAIN winners : winners[c] = i
              THEN [us[i] EXCEPT !.last_pos = us[i].pos, !.pos = won(i)]
         ELSE IF moves(i)
              THEN [us[i] EXCEPT !.last_pos = us[i].pos, !.pos = intents[i]]
         ELSE [us[i] EXCEPT !.last_pos = us[i].pos]]

\* variant: last_pos is recorded after the move instead of before it
_apply_movements_late_last_pos(us, alive, intents, winners, blocked) ==
  LET initial_free == (1..BOARD_LEN) \ {us[i].pos : i \in Range(alive)}
      winner_ids == {us[winners[c]].id : c \in DOMAIN winners}
      won(i) == CHOOSE c \in DOMAIN winners : winners[c] = i
      moves(i) ==
        /\ i \notin blocked
        /\ us[i].id \notin winner_ids
        /\ intents[i] \in initial_free \/ intents[i] = us[i].pos
        /\ intents[i] \notin DOMAIN winners
  IN  [i \in 1..Len(us) |->
         IF i \notin Range(alive) THEN us[i]
         ELSE IF \E c \in DOMAIN winners : winners[c] = i
              THEN [us[i] EXCEPT !.last_pos = won(i), !.pos = won(i)]
         ELSE IF moves(i)
              THEN [us[i] EXCEPT !.last_pos = intents[i], !.pos = intents[i]]
         ELSE [us[i] EXCEPT !.last_pos = us[i].pos]]

\* variant: a cell counts as free once its occupant leaves it
_apply_movements_into_vacated(us, alive, intents, winners, blocked) ==
  LET winner_ids == {us[winners[c]].id : c \in DOMAIN winners}
      won(i) == CHOOSE c \in DOMAIN winners : winners[c] = i
      vacated(c) ==
        \A j \in Range(alive) : us[j].pos = c => intents[j] # us[j].pos
      moves(i) ==
        /\ us[i].id \notin winner_ids
        /\ vacated(intents[i]) \/ intents[i] = us[i].pos
        /\ intents[i] \notin DOMAIN winners
  IN  [i \in 1..Len(us) |->
         IF i \notin Range(alive) THEN us[i]
         ELSE IF \E c \in DOMAIN winners : winners[c] = i
              THEN [us[i] EXCEPT !.last_pos = us[i].pos, !.pos = won(i)]
         ELSE IF moves(i)
              THEN [us[i] EXCEPT !.last_pos = us[i].pos, !.pos = intents[i]]
         ELSE [us[i] EXCEPT !.last_pos = us[i].pos]]

\* variant: only the winners of a contest change cell
_apply_movements_winners_only(us, alive, intents, winners, blocked) ==
  LET won(i) == CHOOSE c \in DOMAIN winners : winners[c] = i
  IN  [i \in 1..Len(us) |->
         IF i \notin Range(alive) THEN us[i]
         ELSE IF \E c \in DOMAIN winners : winners[c] = i
              THEN [us[i] EXCEPT !.last_pos = us[i].pos, !.pos = won(i)]
         ELSE [us[i] EXCEPT !.last_pos = us[i].pos]]

_apply_movements(us, alive, intents, winners, blocked) ==
  LET initial_free == (1..BOARD_LEN) \ {us[i].pos : i \in Range(alive)}
      winner_ids == {us[winners[c]].id : c \in DOMAIN winners}
      won(i) == CHOOSE c \in DOMAIN winners : winners[c] = i
      moves(i) ==
        /\ i \notin blocked
        /\ us[i].id \notin winner_ids
        /\ intents[i] \in initial_free \/ intents[i] = us[i].pos
        /\ intents[i] \notin DOMAIN winners
  IN  [i \in 1..Len(us) |->
         IF i \notin Range(alive) THEN us[i]
         ELSE IF \E c \in DOMAIN winners : winners[c] = i
              THEN [us[i] EXCEPT !.last_pos = us[i].pos, !.pos = won(i)]
         ELSE IF moves(i)
              THEN [us[i] EXCEPT !.last_pos = us[i].pos, !.pos = intents[i]]
         ELSE [us[i] EXCEPT !.last_pos = us[i].pos]]

(* ------------------------------- turn --------------------------------- *)
\* the body of step() after the counter and the log reset
step_result(us) ==
  LET alive == get_units_alive(us)
  IN  IF alive = <<>> THEN [us |-> us, log |-> <<>>, fought |-> <<>>]
      ELSE LET intents == _compute_intents(us, alive)
               r == _resolve_blocking_and_contests(us, alive, intents)
               b == _resolve_battles(us, r.battles)
           IN  [us |-> _apply_movements(b.us, alive, intents, r.winners, r.blocked),
                log |-> b.log, fought |-> b.fought]

check_victory(us) ==
  LET at_base == Filter(get_units_alive(us),
                        [i \in 1..Len(us) |-> at_base_enemy(us[i])])
  IN  IF at_base = <<>> THEN None ELSE us[at_base[1]].faction

\* variant: the units are not filtered by health
set_actions_any_health(us, actions_by_id) ==
  [i \in 1..Len(us) |->
     IF us[i].id \in DOMAIN actions_by_id
     THEN [us[i] EXCEPT !.prev_action = us[i].next_action,
                        !.next_action = actions_by_id[us[i].id]]
     ELSE us[i]]

\* set_actions: only alive units whose id is a key of the mapping are touched
set_actions(us, actions_by_id) ==
  [i \in 1..Len(us) |->
     IF us[i].salute > 0 /\ us[i].id \in DOMAIN actions_by_id
     THEN [us[i] EXCEPT !.prev_action = us[i].next_action,
                        !.next_action = actions_by_id[us[i].id]]
     ELSE us[i]]

(* --------------------------- construction ----------------------------- *)
\* Unit(...) with the dataclass defaults of next_action and prev_action
Unit(id, faction, salute, attacco, difesa, direzione, pos, last_pos) ==
  [id |-> id, faction |-> faction, salute |-> salute, attacco |-> attacco,
   difesa |-> difesa, direzione |-> direzione, pos |-> pos, last_pos |-> last_pos,
   next_action |-> MOVIMENTO, prev_action |-> None]

\* the two units of make_default_game
make_default_game ==
  << Unit("A1", "A", 160, 48, 32, RIGHT, START_A_X, START_A_X),
     Unit("B1", "B", 160, 48, 32, LEFT, START_B_X, START_B_X) >>

\* steps taken in one explored run
MaxTurns == 1

\* an id carried by no unit of any registry below
UnknownId == "Z9"

\* (attacco, difesa): the default profile and profiles whose damage is fractional
DefaultStats == <<48, 32>>
StatPairs ==
  { <<DefaultStats, DefaultStats>>, << <<34, 32>>, <<34, 32>> >>,
    << <<35, 32>>, <<42, 32>> >> }

\* A1 facing right against B1 facing left: far apart (the default game),
\* adjacent, one free cell between, crossed next to the bases, on the edges,
\* on each other's base
DuelCells ==
  { <<START_A_X, START_B_X>>, <<2, 3>>, <<2, 4>>, <<15, 2>>, <<1, 16>>, <<1, 2>>,
    <<RIGHT_BASE_X, LEFT_BASE_X>> }
DuelHealth == { <<160, 160>>, <<20, 20>>, <<160, 0>>, <<0, 160>> }

\* the other profiles are tried where two alive units are within reach of
\* each other
DuelSetups ==
  { s \in DuelCells \X DuelHealth \X StatPairs :
      (s[2][1] = 0 \/ s[2][2] = 0 \/ Abs(s[1][1] - s[1][2]) > 2)
        => s[3] = <<DefaultStats, DefaultStats>> }

Duels ==
  { << Unit("A1", "A", s[2][1], s[3][1][1], s[3][1][2], RIGHT, s[1][1], s[1][1]),
       Unit("B1", "B", s[2][2], s[3][2][1], s[3][2][2], LEFT, s[1][2], s[1][2]) >> :
      s \in DuelSetups }

\* the same duels with B1 first in the registry
Reversed(us) == [i \in 1..Len(us) |-> us[Len(us) + 1 - i]]
DuelsReversed ==
  { Reversed(us) : us \in {d \in Duels : d[1].attacco = 48 /\ d[1].salute >= d[2].salute} }

\* two units of faction A: adjacent or one free cell apart
Columns ==
  { << Unit("A1", "A", 160, 48, 32, RIGHT, 2, 1),
       Unit("A2", "A", 160, 48, 32, d, c, c - d) >> : c \in {3, 4}, d \in {RIGHT, LEFT} }

\* three units, as if each had just advanced one cell:
\* <<cell of A1, cell of A2, cell of B1, salute of A2, salute of B1>>
TrioSetups ==
  { <<2, 4, 3, 160, 20>>, <<2, 3, 5, 160, 160>>, <<3, 5, 4, 0, 160>> }
Trios ==
  { << Unit("A1", "A", 160, 48, 32, RIGHT, t[1], t[1] - 1),
       Unit("A2", "A", t[4], 48, 32, RIGHT, t[2], t[2] - 1),
       Unit("B1", "B", t[5], 48, 32, LEFT, t[3], t[3] + 1) >> : t \in TrioSetups }

\* B1 between A1 (one free cell away) and A2 (adjacent, facing B1), A2 first
Ambush ==
  << Unit("A2", "A", 160, 48, 32, LEFT, 5, 6),
     Unit("A1", "A", 160, 48, 32, RIGHT, 2, 1),
     Unit("B1", "B", 20, 48, 32, LEFT, 4, 5) >>

Registries ==
  {make_default_game, Ambush} \cup Duels \cup DuelsReversed \cup Columns \cup Trios

RegIds(us) == {us[i].id : i \in 1..Len(us)}

\* the mappings handed to set_actions: every unit, an unknown key alone,
\* none, and the first unit's key together with an unknown one
ActionMaps(us) ==
  [RegIds(us) -> Action]
    \cup [{UnknownId} -> Action]
    \cup {<<>>}
    \cup {[k \in {UnknownId, us[1].id} |-> a] : a \in Action}

AlivePositionsDistinct(us) ==
  \A i, j \in 1..Len(us) :
    (i # j /\ us[i].salute > 0 /\ us[j].salute > 0) => us[i].pos # us[j].pos

\* A1 and B1 face to face on cells 2 and 3, both with health h
Clash(h) ==
  << Unit("A1", "A", h, 48, 32, RIGHT, 2, 2),
     Unit("B1", "B", h, 48, 32, LEFT, 3, 3) >>

\* games taken over right after a turn in which A1 and B1 charged each other:
\* both fallen (health 20) or both wounded (health 160), the log still filled
Played ==
  { step_result(set_actions(Clash(h), [k \in {"A1", "B1"} |-> CARICA])) :
      h \in {20, 160} }

Init ==
  /\ \/ /\ units \in Registries
        /\ battle_log = <<>>
        /\ fights = <<>>
     \/ \E g \in Played :
          /\ units = g.us
          /\ battle_log = g.log
          /\ fights = g.fought
  /\ turn_count = 0
  /\ pre = units
  /\ call = [op |-> "init", arg |-> <<>>, turn |-> 0, log |-> <<>>]

\* set_actions(m); as in main() the actions of a turn are committed in one call
SetActions ==
  /\ turn_count < MaxTurns
  /\ call.op # "set_actions"
  /\ \E m \in ActionMaps(units) :
       /\ units' = set_actions(units, m)
       /\ call' = [op |-> "set_actions", arg |-> m,
                   turn |-> turn_count, log |-> battle_log]
  /\ pre' = units
  /\ UNCHANGED <<turn_count, battle_log, fights>>

\* variant: the log is not cleared, the entries of the turn are appended
Step_log_kept ==
  /\ turn_count < MaxTurns
  /\ LET r == step_result(units)
     IN  /\ units' = r.us
         /\ battle_log' = battle_log \o r.log
         /\ fights' = r.fought
  /\ turn_count' = turn_count + 1
  /\ pre' = units
  /\ call' = [op |-> "step", arg |-> <<>>,
              turn |-> turn_count, log |-> battle_log]

\* variant: the check for alive units comes before the counter is advanced
Step_returns_early ==
  /\ turn_count < MaxTurns
  /\ LET r == step_result(units)
     IN  /\ units' = r.us
         /\ battle_log' = r.log
         /\ fights' = r.fought
  /\ turn_count' = IF get_units_alive(units) = <<>> THEN turn_count
                   ELSE turn_count + 1
  /\ pre' = units
  /\ call' = [op |-> "step", arg |-> <<>>,
              turn |-> turn_count, log |-> battle_log]

Step ==
  /\ turn_count < MaxTurns
  /\ LET r == step_result(units)
     IN  /\ units' = r.us
         /\ battle_log' = r.log
         /\ fights' = r.fought
  /\ turn_count' = turn_count + 1
  /\ pre' = units
  /\ call' = [op |-> "step", arg |-> <<>>,
              turn |-> turn_count, log |-> battle_log]

Next == SetActions \/ Step

Spec == Init /\ [][Next]_vars

(* ======================= properties of the game ======================= *)
AfterStep == call.op = "step"

Alive(us) == {i \in 1..Len(us) : us[i].salute > 0}

\* destination of unit i in the turn that starts in us
Intent(us, i) == _compute_intents(us, get_units_alive(us))[i]

\* unit i commits an action that moves it (anything but Defend)
Moving(us, i) == step_size(us[i]) = 1

Moved(i) == units[i].pos # pre[i].pos

\* the entries of a log that name both ids
EntriesOf(log, a, b) == {k \in 1..Len(log) : {log[k].u, log[k].v} = {a, b}}

\* the entries of a log that name id a
EntriesWith(log, a) == {k \in 1..Len(log) : a \in {log[k].u, log[k].v}}

Opposing(us, i, j) == us[i].faction # us[j].faction

(* C1: in every reachable state no cell holds more than one alive unit.    *)
C1_OneAlivePerCell == AlivePositionsDistinct(units)

\* a step in which two units wanted the same cell, one of them took it, and
\* both are still alive
C1_Witness ==
  /\ AfterStep
  /\ \E i, j \in Alive(pre) :
       /\ i # j
       /\ Intent(pre, i) = Intent(pre, j)
       /\ Moved(i)
       /\ units[i].salute > 0 /\ units[j].salute > 0

(* C2: the outcome of a step (salute and pos of every unit, the pairs of   *)
(* the battle log) is the same for every order of the registry.            *)
Permute(us, p) == [i \in 1..Len(us) |-> us[p[i]]]

Outcome(us, log) ==
  [state |-> {<<us[i].id, us[i].salute, us[i].pos>> : i \in 1..Len(us)},
   pairs |-> {{log[k].u, log[k].v} : k \in 1..Len(log)}]

C2_OrderIndependent ==
  AfterStep =>
    \A p \in Permutations(1..Len(pre)) :
      LET r == step_result(Permute(pre, p))
      IN  Outcome(r.us, r.log) = Outcome(units, battle_log)

(* C3: chase block -- two alive units of one faction on adjacent cells,    *)
(* both moving in the same direction, the rear one strictly faster: after  *)
(* the step neither has changed position and no log entry names the pair.  *)
ChasePair(us, f, l) ==
  /\ f # l
  /\ us[f].faction = us[l].faction
  /\ Moving(us, f) /\ Moving(us, l)
  /\ intended_direction(us[f]) = intended_direction(us[l])
  /\ us[l].pos = us[f].pos + intended_direction(us[f])
  /\ speed_value(us[f]) > speed_value(us[l])

C3_ChaseBlock ==
  AfterStep =>
    \A f, l \in Alive(pre) :
      ChasePair(pre, f, l) =>
        /\ ~Moved(f) /\ ~Moved(l)
        /\ EntriesOf(battle_log, pre[f].id, pre[l].id) = {}

(* C4: tie-break -- two alive units of opposing factions with equal action *)
(* speed target the same cell, free at turn start: neither moves, and the  *)
(* battle log has an entry for the pair with nonzero damage.               *)
FreeAtStart(us, c) == \A k \in Alive(us) : us[k].pos # c

TiePair(us, i, j) ==
  /\ i # j
  /\ Opposing(us, i, j)
  /\ speed_value(us[i]) = speed_value(us[j])
  /\ Intent(us, i) = Intent(us, j)
  /\ FreeAtStart(us, Intent(us, i))

\* attack x attack factor minus defense x defense factor, in quarters
Excess(u, v) ==
  u.attacco * ACTION_MODS[u.next_action].atk - v.difesa * ACTION_MODS[v.next_action].def

DamagingEntry(log, a, b) ==
  \E k \in EntriesOf(log, a, b) : log[k].u_dmg > 0 \/ log[k].v_dmg > 0

KilledByThird(x, i, j) ==
  /\ units[x].salute = 0
  /\ \E k \in EntriesWith(fights, pre[x].id) :
       {fights[k].u, fights[k].v} # {pre[i].id, pre[j].id}

OnBase(us, f) ==
  {i \in Alive(us) :
     us[i].faction = f /\ us[i].pos = (IF f = "A" THEN RIGHT_BASE_X ELSE LEFT_BASE_X)}

C5_VictoryBothWays ==
  AfterStep =>
    /\ OnBase(units, "A") # {} => check_victory(units) = "A"
    /\ OnBase(units, "B") # {} => check_victory(units) = "B"
    /\ (OnBase(units, "A") = {} /\ OnBase(units, "B") = {}) => check_victory(units) = None

(* C5 as amended: A when only A has an alive unit on the enemy base, B    *)
(* when only B has, none when neither has; when both have, the faction of  *)
(* the first such unit of the registry.                                    *)
C5_Victory ==
  LET a == OnBase(units, "A")
      b == OnBase(units, "B")
      first == CHOOSE i \in a \cup b : \A j \in a \cup b : i <= j
  IN  /\ (a # {} /\ b = {}) => check_victory(units) = "A"
      /\ (b # {} /\ a = {}) => check_victory(units) = "B"
      /\ (a = {} /\ b = {}) => check_victory(units) = None
      /\ (a # {} /\ b # {}) => check_victory(units) = units[first].faction

\* the step that lands a unit on the enemy base reports its faction, while a
\* dead unit lies on a cell of the board
C5_Witness ==
  /\ AfterStep
  /\ \E i \in Alive(units) :
       /\ Moved(i)
       /\ i \in OnBase(units, units[i].faction)
       /\ check_victory(units) = units[i].faction
       /\ \E j \in 1..Len(units) : units[j].salute = 0

(* C6: a pair of alive units of which one commits Attack and the other     *)
(* Retreat has no battle entry after the step and exchanges no damage.     *)
AttackRetreat(us, i, j) ==
  i # j /\ us[i].next_action = ATTACCA /\ us[j].next_action = RITIRATA

RECURSIVE SumOver(_, _)
SumOver(S, f) ==
  IF S = {} THEN 0
  ELSE LET x == CHOOSE y \in S : TRUE IN f[x] + SumOver(S \ {x}, f)

\* rounded damage unit j deals to unit i in a turn that starts in us
DamageFrom(us, j, i) == round_quarters(Max2(0, Excess(us[j], us[i])))

Foes(us, i) == {j \in Alive(us) : Opposing(us, i, j)}

C7_OncePerPair ==
  AfterStep =>
    \A i \in 1..Len(pre) :
      /\ \A j \in 1..Len(pre) :
           i # j =>
             /\ Cardinality(EntriesOf(fights, pre[i].id, pre[j].id)) <= 1
             /\ Cardinality(EntriesOf(battle_log, pre[i].id, pre[j].id)) <= 1
      /\ units[i].salute >= pre[i].salute -
            SumOver(Foes(pre, i), [j \in Foes(pre, i) |-> DamageFrom(pre, j, i)])

\* two enemies ran into each other's cell: the pair was scheduled in both
\* orientations and fought once
C7_Witness ==
  /\ AfterStep
  /\ \E i, j \in Alive(pre) :
       /\ Opposing(pre, i, j)
       /\ Intent(pre, i) = pre[j].pos /\ Intent(pre, j) = pre[i].pos
       /\ Cardinality(EntriesOf(battle_log, pre[i].id, pre[j].id)) = 1
       /\ units[i].salute = pre[i].salute - DamageFrom(pre, j, i)
       /\ DamageFrom(pre, j, i) > 0

(* C8: in every exchange of a step the damage of each side is the nearest  *)
(* integer to max(0, attack x atk factor - defense x def factor) of the    *)
(* values at turn start, also when the exchange kills the unit dealing it; *)
(* a unit ends the step with its salute less the damages, floored at zero. *)
(* 48 with Charge against 32 with Defend takes 28.                         *)
UnitOf(us, id) == us[CHOOSE i \in 1..Len(us) : us[i].id = id]

\* d is an integer within 1/2 of q quarters
NearestTo(d, q) == d >= 0 /\ Abs(4 * d - q) <= 2

ChargeOnDefend(u, v) ==
  /\ u.attacco = 48 /\ u.next_action = CARICA
  /\ v.difesa = 32 /\ v.next_action = DIFENDI

DamageTaken(log, id) ==
  SumOver(EntriesWith(log, id),
          [k \in EntriesWith(log, id) |->
             IF log[k].u = id THEN log[k].u_dmg ELSE log[k].v_dmg])

C8_Damage ==
  AfterStep =>
    /\ \A k \in 1..Len(fights) :
         LET u == UnitOf(pre, fights[k].u)
             v == UnitOf(pre, fights[k].v)
         IN  /\ NearestTo(fights[k].v_dmg, Max2(0, Excess(u, v)))
             /\ NearestTo(fights[k].u_dmg, Max2(0, Excess(v, u)))
             /\ ChargeOnDefend(u, v) => fights[k].v_dmg = 28
             /\ ChargeOnDefend(v, u) => fights[k].u_dmg = 28
    /\ \A i \in 1..Len(pre) :
         units[i].salute = Max2(0, pre[i].salute - DamageTaken(fights, pre[i].id))

\* a Charge of 48 on a Defend of 32 takes 28, kills the defender, and the
\* defender still deals its damage in that exchange
C8_Witness ==
  /\ AfterStep
  /\ \E k \in 1..Len(fights) :
       LET u == UnitOf(pre, fights[k].u)
           v == UnitOf(pre, fights[k].v)
       IN  /\ ChargeOnDefend(u, v)
           /\ fights[k].v_dmg = 28
           /\ v.salute > 0 /\ UnitOf(units, v.id).salute = 0
           /\ fights[k].u_dmg > 0
           /\ UnitOf(units, u.id).salute = u.salute - fights[k].u_dmg

(* C9: no call raises a unit's salute or takes it below zero; a dead unit  *)
(* stays dead.                                                              *)
C9_HealthMonotone ==
  \A i \in 1..Len(units) :
    /\ 0 <= units[i].salute
    /\ units[i].salute <= pre[i].salute

\* a unit took more damage than it had salute and ended the step at zero
C9_Witness ==
  /\ AfterStep
  /\ \E i \in Alive(pre) :
       /\ DamageTaken(fights, pre[i].id) > pre[i].salute
       /\ units[i].salute = 0

(* C10: a unit alive at the start of a step ends it at most one cell from  *)
(* where it stood, with last_pos the cell where it stood.                  *)
C10_OneCellAndLastPos ==
  AfterStep =>
    \A i \in Alive(pre) :
      /\ Abs(units[i].pos - pre[i].pos) <= 1
      /\ units[i].last_pos = pre[i].pos

\* a unit whose last_pos differed from its position moved one cell
C10_Witness ==
  /\ AfterStep
  /\ \E i \in Alive(pre) :
       /\ Moved(i)
       /\ pre[i].last_pos # pre[i].pos
       /\ units[i].last_pos = pre[i].pos

(* C11: every position stays within 1..16; a unit on a boundary cell whose *)
(* action would carry it off the board has its own cell as destination and *)
(* stays there, is not blocked and schedules no battle itself.             *)
Resolution(us) ==
  _resolve_blocking_and_contests(us, get_units_alive(us),
                                 _compute_intents(us, get_units_alive(us)))

\* what the turn that started in pre scheduled
Scheduled == Resolution(pre)

\* unit i commits a move whose target cell lies outside the board
LeavesBoard(us, i) ==
  Moving(us, i) /\ us[i].pos + intended_direction(us[i]) \notin 1..BOARD_LEN

C11_OnBoard ==
  /\ \A i \in 1..Len(units) : units[i].pos \in 1..BOARD_LEN
  /\ AfterStep =>
       \A i \in Alive(pre) :
         LeavesBoard(pre, i) =>
           /\ Intent(pre, i) = pre[i].pos
           /\ units[i].pos = pre[i].pos
           /\ i \notin Scheduled.blocked
           /\ \A k \in 1..Len(Scheduled.battles) : Scheduled.battles[k][1] # i
           /\ (\A j \in Alive(pre) : j # i => Intent(pre, j) # pre[i].pos)
                => EntriesWith(fights, pre[i].id) = {}

\* a unit held at the edge of the board while an enemy ran into its cell and
\* fought it
C11_Witness ==
  /\ AfterStep
  /\ \E i, j \in Alive(pre) :
       /\ LeavesBoard(pre, i)
       /\ units[i].pos = pre[i].pos
       /\ j # i /\ Intent(pre, j) = pre[i].pos
       /\ EntriesOf(battle_log, pre[i].id, pre[j].id) # {}

(* C12: if every alive unit has committed Defend, step() changes no        *)
(* position, no health and no action, leaves the battle log empty and      *)
(* advances the turn counter by one; it records each alive unit's position *)
(* as its last_pos.                                                        *)
AllDefend(us) ==
  Alive(us) # {} /\ \A i \in Alive(us) : us[i].next_action = DIFENDI

C12_DefendStep ==
  (AfterStep /\ AllDefend(pre)) =>
    /\ \A i \in 1..Len(pre) :
         units[i] = IF i \in Alive(pre)
                    THEN [pre[i] EXCEPT !.last_pos = pre[i].pos]
                    ELSE pre[i]
    /\ battle_log = <<>>
    /\ fights = <<>>
    /\ turn_count = call.turn + 1

\* an all-Defend step with two alive units, one of which came from another cell
C12_Witness ==
  /\ AfterStep
  /\ AllDefend(pre)
  /\ Cardinality(Alive(pre)) >= 2
  /\ \E i \in Alive(pre) : pre[i].last_pos # pre[i].pos
  /\ \A i \in Alive(pre) :
       units[i].pos = pre[i].pos /\ units[i].salute = pre[i].salute

\* C12 as first stated: nothing but the turn counter differs after the step
C12_OnlyTurnAdvances ==
  (AfterStep /\ AllDefend(pre)) =>
    /\ units = pre
    /\ battle_log = call.log
    /\ turn_count = call.turn + 1

(* C13: an alive unit whose destination was free at turn start and is the  *)
(* destination of no other alive unit ends the step on that cell, is not   *)
(* blocked and schedules no battle; whatever it fights was started by a    *)
(* unit entering the cell it left. The default game with A1 Charge and B1  *)
(* Defend gives A1 at 3, B1 at 15, an empty log and no victor.             *)
Uncontested(us, i) ==
  /\ FreeAtStart(us, Intent(us, i))
  /\ \A j \in Alive(us) : j # i => Intent(us, j) # Intent(us, i)

DefaultOpening(us) ==
  /\ Len(us) = 2
  /\ us[1].id = "A1" /\ us[1].pos = START_A_X /\ us[1].direzione = RIGHT
  /\ us[1].next_action = CARICA /\ us[1].salute > 0
  /\ us[2].id = "B1" /\ us[2].pos = START_B_X /\ us[2].direzione = LEFT
  /\ us[2].next_action = DIFENDI /\ us[2].salute > 0

AfterSetActions == call.op = "set_actions"

Mentioned(us, i, m) == us[i].salute > 0 /\ us[i].id \in DOMAIN m

C14_SetActions ==
  AfterSetActions =>
    /\ Len(units) = Len(pre)
    /\ \A i \in 1..Len(pre) :
         /\ Mentioned(pre, i, call.arg) =>
              /\ units[i].next_action = call.arg[pre[i].id]
              /\ units[i].prev_action = pre[i].next_action
         /\ ~Mentioned(pre, i, call.arg) =>
              /\ units[i].next_action = pre[i].next_action
              /\ units[i].prev_action = pre[i].prev_action
         /\ \A f \in DOMAIN pre[i] \ {"next_action", "prev_action"} :
              units[i][f] = pre[i][f]
    /\ turn_count = call.turn
    /\ battle_log = call.log

\* a mapping naming a dead unit and an alive one, whose action it changed
C14_Witness ==
  /\ AfterSetActions
  /\ \E i, j \in 1..Len(pre) :
       /\ pre[i].salute = 0 /\ pre[i].id \in DOMAIN call.arg
       /\ call.arg[pre[i].id] # pre[i].next_action
       /\ Mentioned(pre, j, call.arg)
       /\ units[j].next_action # pre[j].next_action

(* C15: every step() increases the turn counter by exactly one, also when  *)
(* no unit is alive; in that case it changes nothing in any unit and       *)
(* leaves the battle log empty.                                            *)
C15_TurnCounter ==
  AfterStep =>
    /\ turn_count = call.turn + 1
    /\ Alive(pre) = {} =>
         /\ units = pre
         /\ battle_log = <<>>
         /\ fights = <<>>

\* a step on a registry whose units have all fallen, the log of the turn that
\* killed them still filled before the call
C15_Witness ==
  /\ AfterStep
  /\ Len(pre) > 0 /\ Alive(pre) = {}
  /\ call.log # <<>>
  /\ \E i \in 1..Len(pre) : pre[i].last_pos # pre[i].pos \/ pre[i].prev_action # None
  /\ turn_count = call.turn + 1

(* C16: no unit ends a step() on a cell that a different alive unit        *)
(* occupied at the start of the turn, even when that occupant moves away   *)
(* or is killed in the same turn; a unit that targets such a cell keeps    *)
(* its position.                                                           *)
C16_NoEntryIntoOccupied ==
  AfterStep =>
    \A i, j \in Alive(pre) :
      i # j =>
        /\ units[i].pos # pre[j].pos
        /\ Intent(pre, i) = pre[j].pos => units[i].pos = pre[i].pos

\* one unit held before the cell of an enemy it killed, another held before
\* the cell a unit left in the same turn
C16_Witness ==
  /\ AfterStep
  /\ \E i, j \in Alive(pre) :
       /\ i # j /\ Intent(pre, i) = pre[j].pos
       /\ units[j].salute = 0
       /\ units[i].pos = pre[i].pos
  /\ \E i, j \in Alive(pre) :
       /\ i # j /\ Intent(pre, i) = pre[j].pos
       /\ Moved(j)
       /\ units[i].pos = pre[i].pos

(* C17: no overtake and no swap: two units alive at turn start with        *)
(* pos(u) < pos(v) still have pos(u) < pos(v) after the step.              *)
C17_OrderKept ==
  AfterStep =>
    \A u, v \in Alive(pre) :
      pre[u].pos < pre[v].pos => units[u].pos < units[v].pos

\* two adjacent units that headed for each other's cell, and two units that
\* headed for the one cell between them
C17_Witness ==
  /\ AfterStep
  /\ \E u, v \in Alive(pre) :
       /\ pre[u].pos < pre[v].pos
       /\ Intent(pre, u) >= Intent(pre, v)
       /\ Moving(pre, u) /\ Moving(pre, v)
       /\ units[u].pos < units[v].pos
       /\ \/ pre[v].pos = pre[u].pos + 1
          \/ Moved(u) \/ Moved(v)

(* C18: when two or more alive units target the same cell, free at turn    *)
(* start, and exactly one of them has the maximum speed, that unit stands  *)
(* on the cell after step() and every other contender kept its position;   *)
(* the winner fights each contender of the opposing faction exactly once,  *)
(* unless the pair is Attack/Retreat, and no contender of its own faction. *)
Contenders(us, c) == {i \in Alive(us) : Intent(us, i) = c}

\* w alone has the maximum speed among the contenders for the free cell c
WinsCell(us, w, c) ==
  /\ FreeAtStart(us, c)
  /\ w \in Contenders(us, c)
  /\ Cardinality(Contenders(us, c)) >= 2
  /\ \A g \in Contenders(us, c) \ {w} :
       /\ speed_value(us[w]) > speed_value(us[g])
       /\ ~speed_tied(speed_value(us[w]), speed_value(us[g]))

C18_ContestWon ==
  AfterStep =>
    \A w \in Alive(pre) : \A c \in 1..BOARD_LEN :
      WinsCell(pre, w, c) =>
        /\ units[w].pos = c
        /\ \A g \in Contenders(pre, c) \ {w} :
             /\ units[g].pos = pre[g].pos
             /\ (Opposing(pre, w, g) /\ ~_is_retreat_vs_attack(pre[w], pre[g]))
                  => Cardinality(EntriesOf(fights, pre[w].id, pre[g].id)) = 1
             /\ ~Opposing(pre, w, g)
                  => EntriesOf(fights, pre[w].id, pre[g].id) = {}

(* C19: after every step() the battle log describes exactly that step: the *)
(* entries of earlier turns are gone, a fought pair has an entry exactly   *)
(* when at least one side took nonzero damage, and a unit's health changed *)
(* only if a log entry names it (an empty log: no health changed).         *)
Damaging(e) == e.u_dmg > 0 \/ e.v_dmg > 0

C19_LogOfThisStep ==
  AfterStep =>
    /\ battle_log = SelectSeq(fights, Damaging)
    /\ \A k \in 1..Len(fights) :
         \E i, j \in Alive(pre) :
           i # j /\ fights[k].u = pre[i].id /\ fights[k].v = pre[j].id
    /\ \A i \in 1..Len(pre) :
         /\ units[i].salute # pre[i].salute
              => EntriesWith(battle_log, pre[i].id) # {}
         /\ units[i].salute =
              Max2(0, pre[i].salute - DamageTaken(battle_log, pre[i].id))
    /\ battle_log = <<>> => \A i \in 1..Len(pre) : units[i].salute = pre[i].salute

\* the log of the previous turn was filled; after the step it holds the one
\* entry of this turn's exchange, which cost health
C19_Witness ==
  /\ AfterStep
  /\ call.log # <<>>
  /\ battle_log # <<>> /\ battle_log # call.log
  /\ Len(battle_log) = Len(fights)
  /\ \E i \in Alive(pre) : units[i].salute < pre[i].salute

(* C20: a unit with health zero at the start of a call is left out of all  *)
(* resolution: set_actions() and step() leave its health, position,        *)
(* last_pos and actions unchanged, it does not occupy its cell, it is in   *)
(* no battle, it counts neither for check_victory() nor for the partition  *)
(* by faction, and it is never removed from the registry.                  *)
Fallen(us) == {i \in 1..Len(us) : us[i].salute = 0}

\* the registry without its fallen units
Survivors(us) == SelectSeq(us, LAMBDA u : u.salute > 0)

C20_FallenLeftOut ==
  /\ call.op \in {"set_actions", "step"} =>
       /\ Len(units) = Len(pre)
       /\ \A i \in Fallen(pre) : units[i] = pre[i]
  /\ AfterStep =>
       \A i \in Fallen(pre) :
         /\ EntriesWith(fights, pre[i].id) = {}
         /\ EntriesWith(battle_log, pre[i].id) = {}
         /\ FreeAtStart(pre, pre[i].pos) =>
              /\ pre[i].pos \notin DOMAIN initial_occ(pre, get_units_alive(pre))
              /\ \A j \in Alive(pre) :
                   (Intent(pre, j) = pre[i].pos /\ Contenders(pre, pre[i].pos) = {j})
                     => units[j].pos = pre[i].pos
  /\ check_victory(units) = check_victory(Survivors(units))
  /\ \A f \in {"A", "B"} :
       Range(factions(units)[f]) = {i \in Alive(units) : units[i].faction = f}

\* an alive unit stepped onto the cell of a fallen enemy, which lies there as
\* before
C20_Witness ==
  /\ AfterStep
  /\ \E i \in Fallen(pre) : \E j \in Alive(pre) :
       /\ Opposing(pre, i, j)
       /\ Moved(j) /\ units[j].pos = pre[i].pos
       /\ units[i] = pre[i]
       /\ battle_log = <<>>

====
